---- MODULE Spec2Model ----
(***************************************************************************)
(* Model of the TDnet disclosure screener: the field normalizer            *)
(* (src/src/tdnet.py, src/app.py), the index fetcher (src/src/tdnet.py),   *)
(* the analysis cache store (src/src/storage.py) and the two analysis      *)
(* flows of the page script (src/app.py).                                  *)
(*                                                                         *)
(* Strings the code slices or tests character by character (security      *)
(* codes) are sequences of one-character strings.  URLs are sequences of   *)
(* tokens (host, path segment, blank), chosen so that every substring the  *)
(* code searches for is one token or two adjacent tokens.  A falsy value   *)
(* (None, "", missing key) is the empty sequence, which is how the code's  *)
(* `a or b or ""` chains treat it.                                         *)
(***************************************************************************)
EXTENDS Integers, Sequences, FiniteSets, TLC

VARIABLES
  shape, text, stamp, zone, item, rec, gate, npc,
  db, pc, last, target, payload, arg, runs, op,
  fpc, furl, fi, flog, sleeps, fdata, fbody, fout,
  ppc, purl, pmax, ptotal, chunks, preads, pbytes, pdoc, ptext, pprompt, perr, pres,
  gattempt, gcalls, gsleeps,
  qpc, normalized, filtered, fset,
  cols,
  sized

normVars == <<shape, text, stamp, zone, item, rec, gate, npc>>
appVars == <<db, pc, last, target, payload, arg, runs, op>>
fetchVars == <<fpc, furl, fi, flog, sleeps, fdata, fbody, fout>>
pdfVars == <<ppc, purl, pmax, ptotal, chunks, preads, pbytes, pdoc, ptext, pprompt, perr, pres, gattempt, gcalls, gsleeps>>
filtVars == <<qpc, normalized, filtered, fset>>
migVars == <<cols>>
gateVars == <<sized>>
moreVars == <<pdfVars, filtVars, migVars, gateVars>>
notPdfVars == <<normVars, appVars, fetchVars, filtVars, migVars, gateVars>>
notFiltVars == <<normVars, appVars, fetchVars, pdfVars, migVars, gateVars>>
vars == <<normVars, appVars, fetchVars, moreVars>>

\* ------------------------------------------------------------------ bounds
MaxCodeLen == 5
MaxUrlLen == 4
MaxRuns == 2
MaxItems == 2
MaxChunks == 3
MaxPages == 2

\* ------------------------------------------------------------ string helpers
Digits == {"0", "2", "3", "4", "5", "7", "9"}

CodeChars == {"0", "7", "x", " "}

\* the strings over S of length at most n
SeqsUpTo(S, n) == UNION {[1..k -> S] : k \in 0..n}

Take(s, n) == IF Len(s) <= n THEN s ELSE SubSeq(s, 1, n)

RECURSIVE LStrip(_)
LStrip(s) == IF s # <<>> /\ Head(s) = " " THEN LStrip(Tail(s)) ELSE s

RECURSIVE RStrip(_)
RStrip(s) == IF s # <<>> /\ s[Len(s)] = " " THEN RStrip(SubSeq(s, 1, Len(s) - 1)) ELSE s

\* str.strip()
Strip(s) == RStrip(LStrip(s))

\* str.isdigit(): false for the empty string
IsDigit(s) == s # <<>> /\ \A i \in 1..Len(s) : s[i] \in Digits

EndsWith(s, c) == s # <<>> /\ s[Len(s)] = c

\* `a or b`
Or2(a, b) == IF a # <<>> THEN a ELSE b

\* A JSON number stands as its digits behind the mark "#int"; every other value
\* here is a string.
IntValue(digits) == <<"#int">> \o digits

IsStr(v) == v = <<>> \/ v[1] # "#int"

\* str(v)
Str(v) == IF IsStr(v) THEN v ELSE Tail(v)

\* ------------------------------------------------------------------- URLs
HRel == "https://release.tdnet.info"
HYano == "https://webapi.yanoshin.jp"
HEvil == "https://evil.example"
PRd == "/rd.php?"
PPdf == "/x.pdf"
PPDF == "/X.PDF"
PHtm == "/x.htm"
PRel == "/release.tdnet.info"

UrlTokens == {HRel, HYano, HEvil, PRd, PPdf, PPDF, PHtm, PRel, " "}

\* str.lower(), token by token
LowerTok(t) == IF t = PPDF THEN PPdf ELSE t

Lower(u) == [i \in 1..Len(u) |-> LowerTok(u[i])]

\* "release.tdnet.info" in u
HasFilingHostName(u) == \E i \in 1..Len(u) : u[i] \in {HRel, PRel}

\* ".pdf" in u
HasPdf(u) == \E i \in 1..Len(u) : u[i] = PPdf

\* u.endswith(".pdf")
EndsWithPdf(u) == u # <<>> /\ u[Len(u)] = PPdf

\* "webapi.yanoshin.jp/rd.php?" in u
HasYanoRd(u) == \E i \in 1..(Len(u) - 1) : u[i] = HYano /\ u[i + 1] = PRd

IsAllowedPdfUrl(url) ==
  LET u == Strip(url)
      u_low == Lower(u)
  IN IF u = <<>> THEN FALSE
     ELSE IF HasFilingHostName(u_low) /\ EndsWithPdf(u_low) THEN TRUE
     ELSE IF HasYanoRd(u_low) /\ HasFilingHostName(u_low) /\ HasPdf(u_low) THEN TRUE
     ELSE FALSE

\* ------------------------------------------------------------ timestamps
\* A datetime in UTC is <<year, month, day, hour>>, None is <<>>.  A timestamp
\* string is <<form, year, month, day, hour>>, the minutes and seconds being 00:
\* "space" is YYYY-MM-DD HH:MM:SS, "isoT" the same with a T, "isoZ" ends in Z,
\* "iso+09" ends in +09:00, "slash" is YYYY/MM/DD HH:MM:SS, "garbage" is no date.
IsLeap(y) == (y % 4 = 0 /\ y % 100 # 0) \/ y % 400 = 0

DaysIn(y, m) ==
  IF m = 2 THEN (IF IsLeap(y) THEN 29 ELSE 28)
  ELSE IF m \in {4, 6, 9, 11} THEN 30
  ELSE 31

PrevDay(y, m, d) ==
  IF d > 1 THEN <<y, m, d - 1>>
  ELSE IF m > 1 THEN <<y, m - 1, DaysIn(y, m - 1)>>
  ELSE <<y - 1, 12, 31>>

NextDay(y, m, d) ==
  IF d < DaysIn(y, m) THEN <<y, m, d + 1>>
  ELSE IF m < 12 THEN <<y, m + 1, 1>>
  ELSE <<y + 1, 1, 1>>

\* the UTC time of a wall time whose offset is +k hours
MinusHours(dt, k) ==
  IF dt[4] >= k THEN <<dt[1], dt[2], dt[3], dt[4] - k>>
  ELSE LET p == PrevDay(dt[1], dt[2], dt[3]) IN <<p[1], p[2], p[3], dt[4] - k + 24>>

\* the wall time at offset +k hours of a UTC time
PlusHours(dt, k) ==
  IF dt[4] + k < 24 THEN <<dt[1], dt[2], dt[3], dt[4] + k>>
  ELSE LET n == NextDay(dt[1], dt[2], dt[3]) IN <<n[1], n[2], n[3], dt[4] + k - 24>>

\* a < b for datetimes
DtLess(a, b) ==
  \E i \in 1..4 : a[i] < b[i] /\ \A j \in 1..(i - 1) : a[j] = b[j]

\* the offset of ZoneInfo("Asia/Tokyo") at a wall time: the zone kept daylight
\* time in the summers of 1948 to 1951 (the months of the changes, May and
\* September, are not among the dates drawn below)
TokyoOffset(y, m) == IF y \in 1948..1951 /\ m \in 6..8 THEN 10 ELSE 9

\* the host: zoneinfo with its database, zoneinfo without a database for
\* Asia/Tokyo (the lookup raises), or no zoneinfo module (ZoneInfo = None)
Zones == {"tz", "nodata", "fixed"}

StampYears == {1950, 2025, 2026}

StampMonths == {1, 2, 7, 12}

StampDays == {1, 28, 31}

StampHours == {0, 3, 9, 12, 23}

NaiveForms == {"space", "isoT"}

Garbage == <<"garbage", 0, 0, 0, 0>>

Stamps ==
  {Garbage} \cup
  {<<f, y, m, d, h>> : f \in NaiveForms \cup {"isoZ", "iso+09", "slash"},
                       y \in StampYears, m \in StampMonths, d \in StampDays, h \in StampHours}

WallTime(v) == <<v[2], v[3], v[4], v[5]>>

\* the date exists in the calendar
ValidDate(v) == v[1] # "garbage" /\ v[4] <= DaysIn(v[2], v[3])

\* tdnet._parse_dt_maybe on a host of kind z
ParseDtMaybe(v, z) ==
  IF v = <<>> THEN <<>>
  ELSE IF ~ValidDate(v) \/ v[1] = "slash" THEN <<>>
  ELSE IF v[1] = "isoZ" THEN WallTime(v)
  ELSE IF v[1] = "iso+09" THEN MinusHours(WallTime(v), 9)
  ELSE IF z = "tz" THEN MinusHours(WallTime(v), TokyoOffset(v[2], v[3]))
  ELSE IF z = "nodata" THEN <<>>
  ELSE MinusHours(WallTime(v), 9)

\* app._parse_dt_any
ParseDtAny(v) ==
  IF v = <<>> THEN <<>>
  ELSE IF ~ValidDate(v) THEN <<>>
  ELSE IF v[1] = "isoZ" THEN WallTime(v)
  ELSE MinusHours(WallTime(v), 9)

\* ------------------------------------------------------------ security codes
Code4FromCompanyCode(company_code) ==
  LET s == Strip(company_code)
  IN IF ~IsDigit(s) THEN <<>>
     ELSE IF Len(s) = 5 /\ EndsWith(s, "0") THEN SubSeq(s, 1, Len(s) - 1)
     ELSE IF Len(s) >= 4 THEN Take(s, 4)
     ELSE <<>>

Code4(code) ==
  LET c == Strip(code)
  IN IF Len(c) = 5 /\ IsDigit(c) /\ EndsWith(c, "0") THEN SubSeq(c, 1, Len(c) - 1)
     ELSE IF Len(c) >= 4 /\ IsDigit(Take(c, 4)) THEN Take(c, 4)
     ELSE c

\* ------------------------------------------------------------ raw records
\* One upstream mapping: every key the code reads, a missing key being Empty.
NoFields ==
  [title |-> <<>>, Title |-> <<>>,
   company_code |-> <<>>, CompanyCode |-> <<>>, code |-> <<>>, Code |-> <<>>,
   document_url |-> <<>>, documentUrl |-> <<>>, doc_url |-> <<>>, url |-> <<>>,
   published_at |-> <<>>, pubdate |-> <<>>, date |-> <<>>]

\* a value under a wrapper key: a mapping, or something that is not a mapping
NoSlot == [isdict |-> FALSE, f |-> NoFields]

DictSlot(f) == [isdict |-> TRUE, f |-> f]

WrapKinds == {"none", "TDnet", "Tdnet", "tdnet", "both"}

OtherFields == [NoFields EXCEPT !.company_code = <<"7", "7", "7", "7">>, !.url = <<HEvil, PHtm>>]

\* the upstream item: the wrapper keys and the keys at top level
MkRaw(w, f) ==
  [TDnet |-> IF w \in {"TDnet", "both"} THEN DictSlot(f) ELSE NoSlot,
   Tdnet |-> IF w = "Tdnet" THEN DictSlot(f) ELSE IF w = "both" THEN DictSlot(OtherFields) ELSE NoSlot,
   tdnet |-> IF w = "tdnet" THEN DictSlot(f) ELSE NoSlot,
   top |-> IF w = "none" THEN f ELSE NoFields]

PickTdnetDict(r) ==
  IF r.TDnet.isdict THEN r.TDnet.f
  ELSE IF r.Tdnet.isdict THEN r.Tdnet.f
  ELSE IF r.tdnet.isdict THEN r.tdnet.f
  ELSE r.top

\* a faulty variant of NormalizeItem: the redirect wrapper is removed from doc_url
NormalizeItemUnwrap(r) ==
  LET td == PickTdnetDict(r)
      company_code == Or2(td.company_code, Or2(td.CompanyCode, Or2(td.code, td.Code)))
      d == Strip(Str(Or2(td.document_url, Or2(td.documentUrl, Or2(td.doc_url, td.url)))))
  IN [title |-> Strip(Str(Or2(td.title, td.Title))),
      company_code |-> Strip(Str(company_code)),
      code4 |-> Code4FromCompanyCode(Str(company_code)),
      doc_url |-> IF Len(d) >= 2 /\ d[1] = HYano /\ d[2] = PRd THEN SubSeq(d, 3, Len(d)) ELSE d,
      published_at |-> ParseDtMaybe(Or2(td.published_at, Or2(td.pubdate, td.date)), zone),
      raw |-> td]

\* a faulty variant of NormalizeItem: title and doc_url are stripped without str()
\* when they are strings and handed on as they are when they are not
NormalizeItemNoStr(r) ==
  LET td == PickTdnetDict(r)
      company_code == Or2(td.company_code, Or2(td.CompanyCode, Or2(td.code, td.Code)))
      doc_url == Or2(td.document_url, Or2(td.documentUrl, Or2(td.doc_url, td.url)))
  IN [title |-> Strip(Or2(td.title, td.Title)),
      company_code |-> Strip(Str(company_code)),
      code4 |-> Code4FromCompanyCode(Str(company_code)),
      doc_url |-> Strip(doc_url),
      published_at |-> ParseDtMaybe(Or2(td.published_at, Or2(td.pubdate, td.date)), zone),
      raw |-> td]

NormalizeItem(r) ==
  LET td == PickTdnetDict(r)
      company_code == Or2(td.company_code, Or2(td.CompanyCode, Or2(td.code, td.Code)))
      doc_url == Or2(td.document_url, Or2(td.documentUrl, Or2(td.doc_url, td.url)))
  IN [title |-> Strip(Str(Or2(td.title, td.Title))),
      company_code |-> Strip(Str(company_code)),
      code4 |-> Code4FromCompanyCode(Str(company_code)),
      doc_url |-> Strip(Str(doc_url)),
      published_at |-> ParseDtMaybe(Or2(td.published_at, Or2(td.pubdate, td.date)), zone),
      raw |-> td]

\* _extract_tdnet_fields on an item of fetch_tdnet_items: the item has no "code"
\* key, and its "raw" is the mapping _pick_tdnet_dict chose, which holds no wrapper
\* key that is a mapping, so td is that mapping.
ExtractTdnetFields(it) ==
  LET td == it.raw
      title == IF it.title # <<>> THEN it.title ELSE Strip(Str(Or2(td.title, td.Title)))
      code == Strip(Str(Or2(td.code, Or2(td.company_code, td.Code))))
      doc_url == IF it.doc_url # <<>> THEN it.doc_url
                 ELSE Strip(Str(Or2(td.document_url, Or2(td.documentUrl, Or2(td.doc_url, td.url)))))
      published_at == IF it.published_at # <<>> THEN it.published_at
                      ELSE ParseDtAny(Or2(td.published_at, Or2(td.pubdate, td.date)))
  IN [title |-> title, code |-> code, doc_url |-> doc_url, published_at |-> published_at]

\* `(it.get("title") or "").strip()` and `(it.get("doc_url") or "").strip()` raise
\* AttributeError on a value that is no string
ExtractRaises(it) == ~IsStr(it.title) \/ ~IsStr(it.doc_url)

\* one round of the page script's normalize loop
AppNormalize(it) ==
  LET e == ExtractTdnetFields(it)
  IN [title |-> e.title, code |-> Code4(e.code), code_raw |-> e.code, doc_url |-> e.doc_url,
      published_at |-> e.published_at, raw |-> it.raw]

\* ------------------------------------------------------------ cache store
\* A payload is a mapping from the keys present to their values, <<>> being {}.
\* A value is a string ("null" is JSON null), except under "code4" (a code) and
\* "published_date_jst" (a date) and "pdf_url" (a URL).  A date string is
\* <<year, month, day>>, "" is <<>>.  A NULL column is "NULL".
NULL == "NULL"

With(p, k, v) == [x \in (DOMAIN p) \cup {k} |-> IF x = k THEN v ELSE p[x]]

\* json.dumps of one value: a tuple is written as an array
JsonValue(v) == IF v = "(1, 2)" THEN "[1, 2]" ELSE v

\* json.dumps(payload): the text, held as the mapping it spells
JsonDumps(p) == [k \in DOMAIN p |-> IF k \in {"code4", "published_date_jst", "pdf_url"} THEN p[k] ELSE JsonValue(p[k])]

\* json.loads(payload_raw)
JsonLoads(t) == t

InferModel(p) == IF "model" \in DOMAIN p THEN p["model"] ELSE NULL

InferTokens(p) == IF "tokens" \in DOMAIN p /\ p["tokens"] # "null" THEN p["tokens"] ELSE NULL

InferSchemaVersion(p) == IF "schema_version" \in DOMAIN p THEN p["schema_version"] ELSE "1"

KessanTitle == <<"kessan">>

BriefingTitle == <<"briefing">>

ManualTitle == <<"manual">>

InferDocType(title, p) ==
  IF title = KessanTitle THEN "kessan" ELSE IF title = BriefingTitle THEN "briefing" ELSE "other"

\* published_at.astimezone(_JST).strftime("%Y-%m-%d")
DateJst(dt) == LET j == PlusHours(dt, 9) IN <<j[1], j[2], j[3]>>

NewRow(doc_url, code, title, published_at, p) ==
  [doc_url |-> doc_url,
   code |-> code,
   title |-> title,
   published_at |-> published_at,
   payload_json |-> JsonDumps(p),
   created_at |-> "now",
   model |-> InferModel(p),
   tokens |-> InferTokens(p),
   schema_version |-> InferSchemaVersion(p),
   code4 |-> IF Strip(code) # <<>> THEN Take(Strip(code), 4) ELSE <<>>,
   published_date_jst |-> IF published_at # <<>> THEN DateJst(published_at) ELSE <<>>,
   doc_type |-> InferDocType(title, p)]

RowsOf(table, doc_url) == {r \in table : r.doc_url = doc_url}

\* a faulty variant of SaveAnalysis: INSERT OR IGNORE, the first row of a key stays
SaveAnalysisIgnore(table, doc_url, code, title, published_at, p) ==
  IF doc_url = <<>> THEN table
  ELSE IF RowsOf(table, doc_url) # {} THEN table
  ELSE table \cup {NewRow(doc_url, code, title, published_at, p)}

\* a faulty variant of SaveAnalysis: a plain INSERT into a table without the key
SaveAnalysisInsert(table, doc_url, code, title, published_at, p) ==
  IF doc_url = <<>> THEN table
  ELSE table \cup {NewRow(doc_url, code, title, published_at, p)}

\* a faulty variant of SaveAnalysis: the empty doc_url is written like any other
SaveAnalysisNoGuard(table, doc_url, code, title, published_at, p) ==
  (table \ RowsOf(table, doc_url)) \cup {NewRow(doc_url, code, title, published_at, p)}

\* save_analysis: INSERT OR REPLACE on the primary key doc_url
SaveAnalysis(table, doc_url, code, title, published_at, p) ==
  IF doc_url = <<>> THEN table
  ELSE (table \ RowsOf(table, doc_url)) \cup {NewRow(doc_url, code, title, published_at, p)}

NotFound == [found |-> FALSE, p |-> <<>>]

\* a faulty variant of RowPayload: the code4 column replaces the payload's own key
RowPayloadOverwrite(row) ==
  LET p0 == JsonLoads(row.payload_json)
  IN IF row.code4 # <<>> THEN With(p0, "code4", row.code4) ELSE p0

\* a faulty variant of RowPayload: the doc_type column is written over the payload's key
RowPayloadColumnWins(row) ==
  LET p0 == JsonLoads(row.payload_json)
  IN IF row.doc_type \notin {NULL, ""} THEN With(p0, "doc_type", row.doc_type) ELSE p0

\* the payload get_cached_analysis builds from one row
RowPayload(row) ==
  LET p0 == JsonLoads(row.payload_json)
      p1 == IF row.model \notin {NULL, ""} /\ "model" \notin DOMAIN p0 THEN With(p0, "model", row.model) ELSE p0
      p2 == IF row.tokens # NULL /\ "tokens" \notin DOMAIN p1 THEN With(p1, "tokens", row.tokens) ELSE p1
      p3 == IF row.schema_version # NULL /\ "schema_version" \notin DOMAIN p2
            THEN With(p2, "schema_version", row.schema_version) ELSE p2
      p4 == IF row.code4 # NULL /\ row.code4 # <<>> /\ "code4" \notin DOMAIN p3
            THEN With(p3, "code4", row.code4) ELSE p3
      p5 == IF row.published_date_jst # NULL /\ row.published_date_jst # <<>>
               /\ "published_date_jst" \notin DOMAIN p4
            THEN With(p4, "published_date_jst", row.published_date_jst) ELSE p4
      p6 == IF row.doc_type \notin {NULL, ""} /\ "doc_type" \notin DOMAIN p5
            THEN With(p5, "doc_type", row.doc_type) ELSE p5
  IN p6

\* a faulty variant of GetCachedAnalysis: the SELECT has no WHERE clause, so a
\* key without a row is answered with a row of another key
GetCachedAnalysisAnyRow(table, doc_url) ==
  IF doc_url = <<>> THEN NotFound
  ELSE IF table = {} THEN NotFound
  ELSE IF RowsOf(table, doc_url) = {} THEN [found |-> TRUE, p |-> RowPayload(CHOOSE r \in table : TRUE)]
  ELSE [found |-> TRUE, p |-> RowPayload(CHOOSE r \in RowsOf(table, doc_url) : TRUE)]

GetCachedAnalysis(table, doc_url) ==
  IF doc_url = <<>> THEN NotFound
  ELSE IF RowsOf(table, doc_url) = {} THEN NotFound
  ELSE [found |-> TRUE, p |-> RowPayload(CHOOSE r \in RowsOf(table, doc_url) : TRUE)]

\* `if cached:` a dict is true when it is not empty
Truthy(c) == c.found /\ DOMAIN c.p # {}

\* ------------------------------------------------------------ analysis step
GeminiModel == "gemini-2.0-flash"

\* errors of summarize_kessan_pdf_to_json, one of each stage: download failed,
\* JSON not parsed, and the empty message of a response that parses to null (obj
\* is None and err is "")
AnalyzeErrors == {"download", "parse", ""}

OkPayload(pdf_url, result, tokens) ==
  [ok |-> "true", pdf_url |-> pdf_url, model |-> GeminiModel, tokens |-> tokens, result |-> result]

ErrorPayload(pdf_url, error) ==
  [ok |-> "false", error |-> error, model |-> GeminiModel, pdf_url |-> pdf_url]

\* what analyze_pdf_to_json(pdf_url) returns: res.payload, or the error mapping
AnalyzePdfToJson(pdf_url, errors) ==
  {OkPayload(pdf_url, "r1", "100"), OkPayload(pdf_url, "r2", "null")}
    \cup {ErrorPayload(pdf_url, e) : e \in errors}

\* ------------------------------------------------------------ page script
Sessions == {1, 2}

UrlD == <<HRel, PPdf>>
UrlW == <<HYano, PRd, HRel, PPdf>>
UrlN == <<HEvil, PHtm>>
UrlE == <<HEvil, PRel, PPdf>>

AppUrls == {UrlD, UrlW, UrlN, UrlE, <<>>}

Code7203 == <<"7", "2", "0", "3">>

NoCodePlaceholder == <<"-", "-", "-", "-">>

\* the rows of `filtered`: the fields the list loop reads
ListItems ==
  {[title |-> KessanTitle, code |-> Code7203, doc_url |-> UrlD, published_at |-> <<2026, 2, 28, 20>>],
   [title |-> BriefingTitle, code |-> <<>>, doc_url |-> UrlW, published_at |-> <<>>],
   [title |-> KessanTitle, code |-> Code7203, doc_url |-> UrlN, published_at |-> <<2026, 2, 10, 3>>],
   [title |-> KessanTitle, code |-> Code7203, doc_url |-> <<>>, published_at |-> <<>>]}

ListItemsTwo == {it \in ListItems : it.doc_url \in {UrlD, UrlN}}

ManualInputs == {<<" ", HRel, PPdf>>, UrlN, <<>>}

ManualInputsTwo == {<<" ", HRel, PPdf>>, UrlN}

\* Content-Length as _pdf_size_bytes returns it: 0 is None
ProbeSizes == {0, 5, 20}

\* MAX_PDF_BYTES
SizeLimits == {0, 10}

\* what requests.head gave: it raised, or a status and a Content-Length header
\* that is missing, is no number, or is the number n
Probe(raises, status, header, n) == [raises |-> raises, status |-> status, header |-> header, n |-> n]

NoProbe == Probe(TRUE, 0, "missing", 0)

Probes ==
  {NoProbe, Probe(FALSE, 404, "num", 20), Probe(FALSE, 200, "missing", 0), Probe(FALSE, 200, "junk", 0),
   Probe(FALSE, 200, "num", 0), Probe(FALSE, 200, "num", -5),
   Probe(FALSE, 200, "num", 5), Probe(FALSE, 200, "num", 10), Probe(FALSE, 200, "num", 20)}

\* _pdf_size_bytes: 0 is None
PdfSizeBytes(p) ==
  IF p.raises THEN 0
  ELSE IF p.status >= 400 THEN 0
  ELSE IF p.header # "num" THEN 0
  ELSE IF p.n > 0 THEN p.n ELSE 0

\* a faulty variant of CheckPdfSizeOrWarn: a size that is not known blocks
CheckPdfSizeStrict(n, max_bytes) ==
  IF max_bytes <= 0 THEN TRUE
  ELSE n # 0 /\ n <= max_bytes

\* _check_pdf_size_or_warn with the probe's answer n
CheckPdfSizeOrWarn(n, max_bytes) ==
  IF max_bytes <= 0 THEN TRUE
  ELSE IF n = 0 THEN TRUE
  ELSE IF n > max_bytes THEN FALSE
  ELSE TRUE

NoArg == [code |-> <<>>, title |-> <<>>, published_at |-> <<>>]

\* a faulty variant of ListCanRunAi: the allow-list is not part of the button's condition
ListCanRunAiNoGate(doc_url, show_ai_button, ai_ok) == show_ai_button /\ ai_ok

\* can_run_ai of the list loop
ListCanRunAi(doc_url, show_ai_button, ai_ok) ==
  LET allowed == doc_url # <<>> /\ IsAllowedPdfUrl(doc_url)
  IN show_ai_button /\ ai_ok /\ allowed

\* manual_ok
ManualOk(manual, ai_ok) == ai_ok /\ IsAllowedPdfUrl(manual)

\* a faulty variant of ManualCached: the manual flow does not look into the store
ManualCachedNone(table, manual) == NotFound

\* the manual flow's lookup
ManualCached(table, manual) == GetCachedAnalysis(table, manual)

\* a faulty variant of ListCached: the list flow does not look into the store
ListCachedNone(table, doc_url) == NotFound

\* the list flow's lookup
ListCached(table, doc_url) == IF doc_url # <<>> THEN GetCachedAnalysis(table, doc_url) ELSE NotFound

AppInit ==
  /\ db = {}
  /\ pc = [s \in Sessions |-> "idle"]
  /\ last = [s \in Sessions |-> "none"]
  /\ target = [s \in Sessions |-> <<>>]
  /\ payload = [s \in Sessions |-> <<>>]
  /\ arg = [s \in Sessions |-> NoArg]
  /\ runs = [u \in AppUrls |-> 0]
  /\ op = [kind |-> "none"]

\* one pass of the list loop over the row `it`, up to the call of analyze_pdf_to_json
ListStep(s, it, show_ai_button, ai_ok, clicked, n, max_pdf_bytes) ==
  LET doc_url == Strip(it.doc_url)
      c == ListCached(db, doc_url)
      run == clicked /\ ListCanRunAi(doc_url, show_ai_button, ai_ok)
  IN /\ pc[s] = "idle"
     /\ target' = [target EXCEPT ![s] = doc_url]
     /\ IF Truthy(c)
        THEN /\ last' = [last EXCEPT ![s] = "cache"]
             /\ payload' = [payload EXCEPT ![s] = c.p]
             /\ UNCHANGED <<pc, arg>>
        ELSE IF ~run
        THEN /\ last' = [last EXCEPT ![s] = "none"]
             /\ payload' = [payload EXCEPT ![s] = <<>>]
             /\ UNCHANGED <<pc, arg>>
        ELSE IF ~CheckPdfSizeOrWarn(n, max_pdf_bytes)
        THEN /\ last' = [last EXCEPT ![s] = "blocked"]
             /\ payload' = [payload EXCEPT ![s] = <<>>]
             /\ UNCHANGED <<pc, arg>>
        ELSE /\ pc' = [pc EXCEPT ![s] = "analyze"]
             /\ last' = [last EXCEPT ![s] = "none"]
             /\ payload' = [payload EXCEPT ![s] = <<>>]
             /\ arg' = [arg EXCEPT ![s] =
                   [code |-> Or2(it.code, NoCodePlaceholder), title |-> it.title,
                    published_at |-> it.published_at]]
     /\ UNCHANGED <<db, runs, op>>

ListRun(s, it, show_ai_button, ai_ok, clicked, n, max_pdf_bytes) ==
  /\ ListStep(s, it, show_ai_button, ai_ok, clicked, n, max_pdf_bytes)
  /\ UNCHANGED <<normVars, fetchVars, moreVars>>

\* the manual block, up to the call of analyze_pdf_to_json
ManualStep(s, input, ai_ok, clicked, n, max_pdf_bytes) ==
  LET manual == Strip(input)
      manual_run == clicked /\ ManualOk(manual, ai_ok)
      c == ManualCached(db, manual)
  IN /\ pc[s] = "idle"
     /\ target' = [target EXCEPT ![s] = manual]
     /\ IF ~manual_run
        THEN /\ last' = [last EXCEPT ![s] = "none"]
             /\ payload' = [payload EXCEPT ![s] = <<>>]
             /\ UNCHANGED <<pc, arg>>
        ELSE IF ~CheckPdfSizeOrWarn(n, max_pdf_bytes)
        THEN /\ last' = [last EXCEPT ![s] = "blocked"]
             /\ payload' = [payload EXCEPT ![s] = <<>>]
             /\ UNCHANGED <<pc, arg>>
        ELSE IF Truthy(c)
        THEN /\ last' = [last EXCEPT ![s] = "cache"]
             /\ payload' = [payload EXCEPT ![s] = c.p]
             /\ UNCHANGED <<pc, arg>>
        ELSE /\ pc' = [pc EXCEPT ![s] = "analyze"]
             /\ last' = [last EXCEPT ![s] = "none"]
             /\ payload' = [payload EXCEPT ![s] = <<>>]
             /\ arg' = [arg EXCEPT ![s] = [code |-> <<>>, title |-> ManualTitle, published_at |-> <<>>]]
     /\ UNCHANGED <<db, runs, op>>

ManualRun(s, input, ai_ok, clicked, n, max_pdf_bytes) ==
  /\ ManualStep(s, input, ai_ok, clicked, n, max_pdf_bytes)
  /\ UNCHANGED <<normVars, fetchVars, moreVars>>

\* analyze_pdf_to_json returns a payload
Analyze(s, errors) ==
  /\ pc[s] = "analyze"
  /\ runs[target[s]] < MaxRuns
  /\ \E p \in AnalyzePdfToJson(target[s], errors) :
       payload' = [payload EXCEPT ![s] = p]
  /\ runs' = [runs EXCEPT ![target[s]] = @ + 1]
  /\ pc' = [pc EXCEPT ![s] = "save"]
  /\ UNCHANGED <<db, last, target, arg, op, normVars, fetchVars, moreVars>>

\* analyze_pdf_to_json raises: the except branch shows the error
AnalyzeRaises(s) ==
  /\ pc[s] = "analyze"
  /\ runs[target[s]] < MaxRuns
  /\ runs' = [runs EXCEPT ![target[s]] = @ + 1]
  /\ pc' = [pc EXCEPT ![s] = "idle"]
  /\ last' = [last EXCEPT ![s] = "error"]
  /\ arg' = [arg EXCEPT ![s] = NoArg]
  /\ UNCHANGED <<db, target, payload, op, normVars, fetchVars, moreVars>>

\* save_analysis, then render_analysis(payload)
Save(s) ==
  /\ pc[s] = "save"
  /\ db' = SaveAnalysis(db, target[s], arg[s].code, arg[s].title, arg[s].published_at, payload[s])
  /\ pc' = [pc EXCEPT ![s] = "idle"]
  /\ last' = [last EXCEPT ![s] = "saved"]
  /\ arg' = [arg EXCEPT ![s] = NoArg]
  /\ UNCHANGED <<target, payload, runs, op, normVars, fetchVars, moreVars>>

\* The size check of the last run: whether _check_pdf_size_or_warn was called, on
\* which answer of the probe and under which limit.
NoSized == [called |-> FALSE, probe |-> NoProbe, max_bytes |-> 0]

GateIdle == sized = NoSized

\* the list loop, the probe's answer on record
GateListRun(it, show_ai_button, ai_ok, clicked, probe, max_pdf_bytes) ==
  LET doc_url == Strip(it.doc_url)
      run == clicked /\ ListCanRunAi(doc_url, show_ai_button, ai_ok)
      called == ~Truthy(ListCached(db, doc_url)) /\ run
  IN /\ ListStep(1, it, show_ai_button, ai_ok, clicked, PdfSizeBytes(probe), max_pdf_bytes)
     /\ sized' = IF called THEN [called |-> TRUE, probe |-> probe, max_bytes |-> max_pdf_bytes] ELSE NoSized
     /\ UNCHANGED <<normVars, fetchVars, pdfVars, filtVars, migVars>>

\* the manual block, the probe's answer on record
GateManualRun(input, ai_ok, clicked, probe, max_pdf_bytes) ==
  LET called == clicked /\ ManualOk(Strip(input), ai_ok)
  IN /\ ManualStep(1, input, ai_ok, clicked, PdfSizeBytes(probe), max_pdf_bytes)
     /\ sized' = IF called THEN [called |-> TRUE, probe |-> probe, max_bytes |-> max_pdf_bytes] ELSE NoSized
     /\ UNCHANGED <<normVars, fetchVars, pdfVars, filtVars, migVars>>

\* ------------------------------------------------------------ index fetcher
Retries == 2

\* time.sleep(0.8 * (i + 1)), in tenths of a second
SleepTenths == 8

\* an element of the upstream list: a mapping, or something else
DictElem(r) == [isdict |-> TRUE, r |-> r]

OtherElem == [isdict |-> FALSE, r |-> MkRaw("none", NoFields)]

ElemSamples ==
  {OtherElem,
   DictElem(MkRaw("none", [NoFields EXCEPT !.company_code = <<"7", "7", "0", "0", "0">>, !.document_url = UrlD])),
   DictElem(MkRaw("Tdnet", [NoFields EXCEPT !.code = Code7203, !.url = UrlW]))}

\* a response body: data, and data.get("items")
Body(isdict, islist, elems) == [isdict |-> isdict, islist |-> islist, items |-> elems]

EmptyItems == Body(TRUE, TRUE, <<>>)

Bodies ==
  {Body(FALSE, FALSE, <<>>), Body(TRUE, FALSE, <<>>)}
    \cup {Body(TRUE, TRUE, e) : e \in SeqsUpTo(ElemSamples, MaxItems)}

\* the endpoint fetch_tdnet_items asks
FetchUrl(code) == IF code # <<>> /\ IsDigit(code) /\ Len(code) = 4 THEN <<"code", code>> ELSE <<"recent">>

FetchCodes == {<<>>, Code7203, <<"7", "7", "0", "0">>, <<"7", "2", "x">>, <<"7", "2", "0", "3", "0">>}

RECURSIVE NormalizeAll(_)
\* a faulty variant of NormalizeAll: the loop ends at the first element that is no mapping
RECURSIVE NormalizeAllUntilOther(_)
NormalizeAllUntilOther(elems) ==
  IF elems = <<>> THEN <<>>
  ELSE IF Head(elems).isdict THEN <<NormalizeItem(Head(elems).r)>> \o NormalizeAllUntilOther(Tail(elems))
  ELSE <<>>

NormalizeAll(elems) ==
  IF elems = <<>> THEN <<>>
  ELSE IF Head(elems).isdict THEN <<NormalizeItem(Head(elems).r)>> \o NormalizeAll(Tail(elems))
  ELSE NormalizeAll(Tail(elems))

\* a faulty variant of FetchItemsOf: without the isinstance test the loop over a
\* value that is no list raises
FetchItemsOfNoListTest(data) == IF ~data.islist THEN <<"TypeError">> ELSE NormalizeAll(data.items)

\* fetch_tdnet_items after _get_json returned data
FetchItemsOf(data) == IF ~data.islist THEN <<>> ELSE NormalizeAll(data.items)

\* a faulty variant of MoreAttempts: one more round of the loop
MoreAttemptsOffByOne(i) == i < Retries + 1

\* `if i < retries`: another attempt follows a failed one
MoreAttempts(i) == i < Retries

SleepFor(i) == SleepTenths * (i + 1)

FetchInit ==
  /\ fpc = "idle"
  /\ furl = <<>>
  /\ fi = 0
  /\ flog = <<>>
  /\ sleeps = <<>>
  /\ fdata = EmptyItems
  /\ fbody = <<>>
  /\ fout = <<>>

\* fetch_tdnet_items(code, limit) is called: the first round of _get_json's loop
FetchCall(code) ==
  /\ fpc \in {"idle", "done"}
  /\ fpc' = "try"
  /\ furl' = FetchUrl(code)
  /\ fi' = 0
  /\ flog' = <<>>
  /\ sleeps' = <<>>
  /\ fdata' = EmptyItems
  /\ fbody' = <<>>
  /\ fout' = <<>>
  /\ UNCHANGED <<normVars, appVars, moreVars>>

\* requests.get, raise_for_status or r.json() raises
AttemptFails ==
  /\ fpc = "try"
  /\ flog' = Append(flog, "fail")
  /\ IF MoreAttempts(fi)
     THEN /\ sleeps' = Append(sleeps, SleepFor(fi))
          /\ fi' = fi + 1
          /\ UNCHANGED <<fpc, fdata>>
     ELSE /\ fpc' = "got"
          /\ fdata' = EmptyItems
          /\ UNCHANGED <<fi, sleeps>>
  /\ UNCHANGED <<furl, fbody, fout, normVars, appVars, moreVars>>

\* the request succeeds and r.json() is `body`
AttemptSucceeds(body) ==
  /\ fpc = "try"
  /\ flog' = Append(flog, "ok")
  /\ fdata' = IF body.isdict THEN body ELSE EmptyItems
  /\ fbody' = <<body>>
  /\ fpc' = "got"
  /\ UNCHANGED <<furl, fi, sleeps, fout, normVars, appVars, moreVars>>

\* the rest of fetch_tdnet_items
FetchReturn ==
  /\ fpc = "got"
  /\ fout' = FetchItemsOf(fdata)
  /\ fpc' = "done"
  /\ UNCHANGED <<furl, fi, flog, sleeps, fdata, fbody, normVars, appVars, moreVars>>

FetchStep == AttemptFails \/ (\E body \in Bodies : AttemptSucceeds(body)) \/ FetchReturn

\* ------------------------------------------------------------ analysis pipeline
\* summarize_kessan_pdf_to_json, step by step.  A chunk is its length in bytes;
\* a text is a sequence of runs (a character and how often it is repeated), so
\* that a text of the length of the budget can be written down; an error
\* message is a short name:
\* "url_empty", "size", "download" (download_pdf), "no_pypdf", "unreadable",
\* "empty_text" (extract_text_from_pdf_bytes), "no_key", "no_sdk",
\* "empty_response", "parse", "call" (_gemini_generate_json).
PageBudget == 35

TextBudget == 160000

\* max_retries of _gemini_generate_json
MaxRetries == 3

\* retry_sleep, in tenths of a second
RetrySleepTenths == 12

ChunkSizes == {0, 1, 2}

ByteBudgets == {0, 2, 3}

PdfUrls == {<<>>, <<" ">>, UrlD}

\* c repeated n times
Run(c, n) == [c |-> c, n |-> n]

PageTexts ==
  {<<>>, <<Run(" ", 1)>>, <<Run(" ", 1), Run("a", 1)>>,
   <<Run("a", 79999)>>, <<Run("a", 79999), Run("b", 2)>>, <<Run("b", 160001)>>}

\* len(text)
RECURSIVE TextLen(_)
TextLen(t) == IF t = <<>> THEN 0 ELSE Head(t).n + TextLen(Tail(t))

RECURSIVE LStripText(_)
LStripText(t) == IF t # <<>> /\ Head(t).c \in {" ", "\n"} THEN LStripText(Tail(t)) ELSE t

RECURSIVE RStripText(_)
RStripText(t) ==
  IF t # <<>> /\ t[Len(t)].c \in {" ", "\n"} THEN RStripText(SubSeq(t, 1, Len(t) - 1)) ELSE t

\* text.strip()
StripText(t) == RStripText(LStripText(t))

\* a faulty variant of SliceText: the cut is one character late
RECURSIVE SliceTextLate(_, _)
SliceTextLate(t, n) ==
  IF t = <<>> \/ n + 1 <= 0 THEN <<>>
  ELSE IF Head(t).n <= n + 1 THEN <<Head(t)>> \o SliceTextLate(Tail(t), n - Head(t).n)
  ELSE <<Run(Head(t).c, n + 1)>>

\* text[:n]
RECURSIVE SliceText(_, _)
SliceText(t, n) ==
  IF t = <<>> \/ n <= 0 THEN <<>>
  ELSE IF Head(t).n <= n THEN <<Head(t)>> \o SliceText(Tail(t), n - Head(t).n)
  ELSE <<Run(Head(t).c, n)>>

\* what PdfReader makes of the bytes: it raises, or it gives the pages' texts
Doc(readable, pages) == [readable |-> readable, pages |-> pages]

NoDoc == Doc(FALSE, <<>>)

Docs == {NoDoc} \cup {Doc(TRUE, pg) : pg \in SeqsUpTo(PageTexts, MaxPages)}

RECURSIVE SumSeq(_)
SumSeq(q) == IF q = <<>> THEN 0 ELSE Head(q) + SumSeq(Tail(q))

\* a faulty variant of OverBudget: the limit is one byte late
OverBudgetLate(total, max_bytes) == total > max_bytes + 1

\* a faulty variant of OverBudget: the size is never tested
OverBudgetNever(total, max_bytes) == FALSE

\* `if total > max_bytes`
OverBudget(total, max_bytes) == total > max_bytes

\* "\n\n".join(texts) over the pages whose text is not blank
RECURSIVE JoinTexts(_)
JoinTexts(pages) ==
  IF pages = <<>> THEN <<>>
  ELSE LET rest == JoinTexts(Tail(pages))
       IN IF StripText(Head(pages)) = <<>> THEN rest
          ELSE IF rest = <<>> THEN Head(pages)
          ELSE Head(pages) \o <<Run("\n", 2)>> \o rest

\* a faulty variant of ExtractTextFromPdfBytes: a document without text is not an error
ExtractTextNoEmptyCheck(doc, installed) ==
  IF ~installed THEN [text |-> <<>>, err |-> "no_pypdf"]
  ELSE IF ~doc.readable THEN [text |-> <<>>, err |-> "unreadable"]
  ELSE [text |-> StripText(JoinTexts(Take(doc.pages, PageBudget))), err |-> ""]

\* extract_text_from_pdf_bytes: (text, err)
ExtractTextFromPdfBytes(doc, installed) ==
  IF ~installed THEN [text |-> <<>>, err |-> "no_pypdf"]
  ELSE IF ~doc.readable THEN [text |-> <<>>, err |-> "unreadable"]
  ELSE LET out == StripText(JoinTexts(Take(doc.pages, PageBudget)))
       IN IF out = <<>> THEN [text |-> <<>>, err |-> "empty_text"]
          ELSE [text |-> out, err |-> ""]

\* AnalyzeResult
NoResult == [set |-> FALSE, ok |-> FALSE, error |-> "", payload |-> <<>>]

ErrorResult(err) == [set |-> TRUE, ok |-> FALSE, error |-> err, payload |-> <<>>]

OkResult(p) == [set |-> TRUE, ok |-> TRUE, error |-> "", payload |-> p]

\* resp.text: fenced or not, and what stands inside
Response(fence, body) == [fence |-> fence, body |-> body]

Responses ==
  {Response(FALSE, ""), Response(FALSE, "obj"), Response(TRUE, "obj"),
   Response(FALSE, "garbage"), Response(TRUE, "garbage"), Response(FALSE, "null")}

TokenCounts == {"100", "null"}

\* json.loads of a text: it raises, or gives null, or gives the object
JsonLoadsText(t) ==
  IF t = "obj" THEN [ok |-> TRUE, obj |-> "r1"]
  ELSE IF t = "null" THEN [ok |-> TRUE, obj |-> "None"]
  ELSE [ok |-> FALSE, obj |-> "None"]

\* one round of _gemini_generate_json's loop whose call returned resp: (obj, tokens, err)
ParseResponse(resp, tokens) ==
  IF resp.body = "" THEN [obj |-> "None", tokens |-> "null", err |-> "empty_response"]
  ELSE LET first == IF resp.fence THEN [ok |-> FALSE, obj |-> "None"] ELSE JsonLoadsText(resp.body)
           parsed == IF first.ok THEN first ELSE JsonLoadsText(resp.body)
       IN IF parsed.ok THEN [obj |-> parsed.obj, tokens |-> tokens, err |-> ""]
          ELSE [obj |-> "None", tokens |-> "null", err |-> "parse"]

PdfInit ==
  /\ ppc = "idle"
  /\ purl = <<>>
  /\ pmax = 0
  /\ ptotal = 0
  /\ chunks = <<>>
  /\ preads = 0
  /\ pbytes = <<>>
  /\ pdoc = NoDoc
  /\ ptext = <<>>
  /\ pprompt = <<>>
  /\ perr = ""
  /\ pres = NoResult
  /\ gattempt = 0
  /\ gcalls = 0
  /\ gsleeps = <<>>

\* summarize_kessan_pdf_to_json is called: download_pdf up to the open stream
SummarizeCall(pdf_url, max_pdf_bytes) ==
  /\ ppc \in {"idle", "done"}
  /\ purl' = pdf_url
  /\ pmax' = max_pdf_bytes
  /\ ptotal' = 0
  /\ chunks' = <<>>
  /\ preads' = 0
  /\ pbytes' = <<>>
  /\ pdoc' = NoDoc
  /\ ptext' = <<>>
  /\ pprompt' = <<>>
  /\ gattempt' = 0
  /\ gcalls' = 0
  /\ gsleeps' = <<>>
  /\ IF Strip(pdf_url) = <<>>
     THEN /\ perr' = "url_empty"
          /\ pres' = ErrorResult("url_empty")
          /\ ppc' = "done"
     ELSE /\ perr' = ""
          /\ pres' = NoResult
          /\ ppc' = "download"
  /\ UNCHANGED notPdfVars

\* one round of the loop over r.iter_content: the stream yields a chunk of n bytes
ReadChunk(n) ==
  /\ ppc = "download"
  /\ preads < MaxChunks
  /\ preads' = preads + 1
  /\ IF n = 0
     THEN UNCHANGED <<ppc, ptotal, chunks, perr, pres>>
     ELSE /\ ptotal' = ptotal + n
          /\ IF OverBudget(ptotal + n, pmax)
             THEN /\ perr' = "size"
                  /\ pres' = ErrorResult("size")
                  /\ ppc' = "done"
                  /\ UNCHANGED chunks
             ELSE /\ chunks' = Append(chunks, n)
                  /\ UNCHANGED <<ppc, perr, pres>>
  /\ UNCHANGED <<purl, pmax, pbytes, pdoc, ptext, pprompt, gattempt, gcalls, gsleeps, notPdfVars>>

\* the stream ends: download_pdf returns the joined chunks, which PdfReader will
\* read as `doc`; a body without bytes is no document
StreamEnds(doc) ==
  /\ ppc = "download"
  /\ SumSeq(chunks) = 0 => ~doc.readable
  /\ pbytes' = <<SumSeq(chunks)>>
  /\ pdoc' = doc
  /\ ppc' = "extract"
  /\ UNCHANGED <<purl, pmax, ptotal, chunks, preads, ptext, pprompt, perr, pres, gattempt, gcalls, gsleeps, notPdfVars>>

\* requests.get, raise_for_status or the stream raises
DownloadRaises ==
  /\ ppc = "download"
  /\ perr' = "download"
  /\ pres' = ErrorResult("download")
  /\ ppc' = "done"
  /\ UNCHANGED <<purl, pmax, ptotal, chunks, preads, pbytes, pdoc, ptext, pprompt, gattempt, gcalls, gsleeps, notPdfVars>>

\* extract_text_from_pdf_bytes and the test of its err
ExtractStep(installed) ==
  LET r == ExtractTextFromPdfBytes(pdoc, installed)
  IN /\ ppc = "extract"
     /\ ptext' = r.text
     /\ perr' = r.err
     /\ IF r.err # ""
        THEN /\ pres' = ErrorResult(r.err)
             /\ ppc' = "done"
             /\ UNCHANGED pprompt
        ELSE /\ pprompt' = SliceText(r.text, TextBudget)
             /\ ppc' = "generate"
             /\ UNCHANGED pres
     /\ UNCHANGED <<purl, pmax, ptotal, chunks, preads, pbytes, pdoc, gattempt, gcalls, gsleeps, notPdfVars>>

\* _gemini_generate_json is entered with the prompt built from text[:160000]
GenStart(api_key, sdk) ==
  /\ ppc = "generate"
  /\ IF Strip(api_key) = <<>>
     THEN /\ pres' = ErrorResult("no_key")
          /\ ppc' = "done"
          /\ UNCHANGED gattempt
     ELSE IF ~sdk
     THEN /\ pres' = ErrorResult("no_sdk")
          /\ ppc' = "done"
          /\ UNCHANGED gattempt
     ELSE /\ gattempt' = 1
          /\ ppc' = "call"
          /\ UNCHANGED pres
  /\ UNCHANGED <<purl, pmax, ptotal, chunks, preads, pbytes, pdoc, ptext, pprompt, perr, gcalls, gsleeps, notPdfVars>>

\* generate_content raises
GenRaises ==
  /\ ppc = "call"
  /\ gcalls' = gcalls + 1
  /\ IF gattempt < MaxRetries
     THEN /\ gsleeps' = Append(gsleeps, RetrySleepTenths * gattempt)
          /\ gattempt' = gattempt + 1
          /\ UNCHANGED <<ppc, pres>>
     ELSE /\ pres' = ErrorResult("call")
          /\ ppc' = "done"
          /\ UNCHANGED <<gattempt, gsleeps>>
  /\ UNCHANGED <<purl, pmax, ptotal, chunks, preads, pbytes, pdoc, ptext, pprompt, perr, notPdfVars>>

\* generate_content returns resp: _gemini_generate_json returns, and
\* summarize_kessan_pdf_to_json builds its result
GenResponds(resp, tokens) ==
  LET r == ParseResponse(resp, tokens)
  IN /\ ppc = "call"
     /\ gcalls' = gcalls + 1
     /\ pres' = IF r.obj = "None" THEN ErrorResult(r.err)
                ELSE OkResult(OkPayload(purl, r.obj, r.tokens))
     /\ ppc' = "done"
     /\ UNCHANGED <<purl, pmax, ptotal, chunks, preads, pbytes, pdoc, ptext, pprompt, perr, gattempt, gsleeps, notPdfVars>>

\* ------------------------------------------------------------ list filter
\* is_kessan(title)
IsKessan(title) == title = KessanTitle

\* a faulty variant of TooOld: a row without a timestamp counts as old
TooOldOrAbsent(published, cutoff_utc) == published = <<>> \/ DtLess(published, cutoff_utc)

\* `isinstance(published, datetime) and published < cutoff_utc`
TooOld(published, cutoff_utc) == published # <<>> /\ DtLess(published, cutoff_utc)

\* the row passes the title and the document-URL conditions of apply_filters
PassesOtherFilters(row, use_kessan, only_has_doc_url) ==
  /\ ~(use_kessan /\ ~IsKessan(row.title))
  /\ ~(only_has_doc_url /\ Strip(row.doc_url) = <<>>)

RECURSIVE ApplyFilters(_, _, _, _)
ApplyFilters(rows, use_kessan, only_has_doc_url, cutoff_utc) ==
  IF rows = <<>> THEN <<>>
  ELSE LET it == Head(rows)
           rest == ApplyFilters(Tail(rows), use_kessan, only_has_doc_url, cutoff_utc)
       IN IF ~PassesOtherFilters(it, use_kessan, only_has_doc_url) THEN rest
          ELSE IF TooOld(it.published_at, cutoff_utc) THEN rest
          ELSE <<it>> \o rest

\* cutoff_utc = now - days
Cutoffs == {<<1950, 1, 1, 0>>, <<2026, 1, 1, 0>>, <<2026, 3, 1, 0>>}

FilterStamps ==
  {<<>>, Garbage, <<"space", 2026, 2, 31, 9>>, <<"space", 2025, 7, 1, 12>>,
   <<"isoZ", 2026, 2, 28, 12>>, <<"slash", 2026, 2, 1, 3>>}

\* the items fetch_tdnet_items was given
FilterRaws ==
  {MkRaw("none", [NoFields EXCEPT !.title = t, !.document_url = u, !.published_at = st]) :
     t \in {KessanTitle, BriefingTitle}, u \in {UrlD, <<>>}, st \in FilterStamps}

NoSettings == [only_kessan |-> FALSE, use_kessan |-> FALSE, only_has_doc_url |-> FALSE, cutoff_utc |-> <<>>]

FilterInit ==
  /\ qpc = "idle"
  /\ normalized = <<>>
  /\ filtered = <<>>
  /\ fset = NoSettings

\* one turn of the normalize loop, on the next fetched item
NormalizeLoop(raw) ==
  /\ qpc = "idle"
  /\ Len(normalized) < MaxItems
  /\ normalized' = Append(normalized, AppNormalize(NormalizeItem(raw)))
  /\ UNCHANGED <<qpc, filtered, fset, notFiltVars>>

\* the page script from the end of the normalize loop to `filtered`
FilterRun(only_kessan, only_has_doc_url, cutoff_utc) ==
  LET first == ApplyFilters(normalized, only_kessan, only_has_doc_url, cutoff_utc)
      widen == only_kessan /\ first = <<>>
  IN /\ qpc = "idle"
     /\ filtered' = IF widen THEN ApplyFilters(normalized, FALSE, only_has_doc_url, cutoff_utc) ELSE first
     /\ fset' = [only_kessan |-> only_kessan, use_kessan |-> only_kessan /\ ~widen,
                 only_has_doc_url |-> only_has_doc_url, cutoff_utc |-> cutoff_utc]
     /\ qpc' = "shown"
     /\ UNCHANGED <<normalized, notFiltVars>>

\* the page is run again
FilterRerun ==
  /\ qpc = "shown"
  /\ qpc' = "idle"
  /\ normalized' = <<>>
  /\ filtered' = <<>>
  /\ fset' = NoSettings
  /\ UNCHANGED notFiltVars

\* ------------------------------------------------------------ normalizer runs
\* The upstream record is written by its sender: `shape` says under which wrapper
\* and which key the value stands and what else the mapping holds; the value is
\* `text` (a code or a URL) or `stamp` (a timestamp).
CodeKeys == {"company_code", "code"}

TimeKeys == {"published_at", "pubdate", "date"}

Shapes ==
  {[key |-> "company_code", wrap |-> "none", base |-> [NoFields EXCEPT !.documentUrl = UrlD]],
   [key |-> "code", wrap |-> "Tdnet", base |-> [NoFields EXCEPT !.doc_url = UrlW, !.Title = KessanTitle]],
   [key |-> "code", wrap |-> "tdnet", base |-> [NoFields EXCEPT !.company_code = Code7203]],
   [key |-> "document_url", wrap |-> "none", base |-> [NoFields EXCEPT !.CompanyCode = <<"4", "5", "2", "3", "0">>]],
   [key |-> "url", wrap |-> "both", base |-> [NoFields EXCEPT !.Code = Code7203, !.title = BriefingTitle]],
   [key |-> "published_at", wrap |-> "none", base |-> [NoFields EXCEPT !.title = KessanTitle, !.document_url = UrlD]],
   [key |-> "pubdate", wrap |-> "Tdnet", base |-> [NoFields EXCEPT !.code = Code7203]],
   [key |-> "date", wrap |-> "TDnet", base |-> [NoFields EXCEPT !.url = UrlW]],
   [key |-> "pubdate", wrap |-> "none", base |-> NoFields],
   [key |-> "date", wrap |-> "tdnet",
    base |-> [NoFields EXCEPT !.Title = IntValue(<<"2", "0", "2", "5">>), !.code = IntValue(Code7203),
                              !.url = IntValue(<<"7">>)]]}

\* the upstream record of this shape carrying the text t or the timestamp st
RawOf(sh, t, st) == MkRaw(sh.wrap, [sh.base EXCEPT ![sh.key] = IF sh.key \in TimeKeys THEN st ELSE t])

RawRecord == RawOf(shape, text, stamp)

NoItem ==
  [title |-> <<>>, company_code |-> <<>>, code4 |-> <<>>, doc_url |-> <<>>, published_at |-> <<>>,
   raw |-> NoFields]

NoRec ==
  [title |-> <<>>, code |-> <<>>, code_raw |-> <<>>, doc_url |-> <<>>, published_at |-> <<>>,
   raw |-> NoFields]

NormInit ==
  /\ shape \in Shapes
  /\ text = <<>>
  /\ stamp = <<>>
  /\ zone \in (IF shape.key \in TimeKeys THEN Zones ELSE {"tz"})
  /\ item = NoItem
  /\ rec = NoRec
  /\ gate = FALSE
  /\ npc = "raw"

NormIdle ==
  /\ shape = [key |-> "code", wrap |-> "none", base |-> NoFields]
  /\ text = <<>>
  /\ stamp = <<>>
  /\ zone = "tz"
  /\ item = NoItem
  /\ rec = NoRec
  /\ gate = FALSE
  /\ npc = "off"

\* the sender writes one more character of the code, or one more piece of the URL
ExtendText ==
  /\ npc = "raw"
  /\ shape.key \notin TimeKeys
  /\ IF shape.key \in CodeKeys
     THEN /\ Len(text) < MaxCodeLen
          /\ \E c \in CodeChars : text' = Append(text, c)
     ELSE /\ Len(text) < MaxUrlLen
          /\ \E t \in UrlTokens : text' = Append(text, t)
  /\ UNCHANGED <<shape, stamp, zone, item, rec, gate, npc, appVars, fetchVars, moreVars>>

\* the sender writes the timestamp
WriteStamp ==
  /\ npc = "raw"
  /\ shape.key \in TimeKeys
  /\ stamp = <<>>
  /\ stamp' \in Stamps
  /\ UNCHANGED <<shape, text, zone, item, rec, gate, npc, appVars, fetchVars, moreVars>>

\* tdnet._normalize_item on the upstream record
NormalizeStep ==
  /\ npc = "raw"
  /\ item' = NormalizeItem(RawRecord)
  /\ npc' = "item"
  /\ UNCHANGED <<shape, text, stamp, zone, rec, gate, appVars, fetchVars, moreVars>>

\* the page script's normalize loop on the item
AppNormalizeStep ==
  /\ npc = "item"
  /\ IF ExtractRaises(item)
     THEN rec' = rec /\ npc' = "raised"
     ELSE rec' = AppNormalize(item) /\ npc' = "rec"
  /\ UNCHANGED <<shape, text, stamp, zone, item, gate, appVars, fetchVars, moreVars>>

\* `allowed` of the list loop for the normalized row
GateStep ==
  /\ npc = "rec"
  /\ gate' = (rec.doc_url # <<>> /\ IsAllowedPdfUrl(rec.doc_url))
  /\ npc' = "gate"
  /\ UNCHANGED <<shape, text, stamp, zone, item, rec, appVars, fetchVars, moreVars>>

\* ------------------------------------------------------------ store calls
PayloadSamples ==
  {<<>>,
   OkPayload(UrlD, "r1", "100"),
   ErrorPayload(UrlD, "download"),
   [ok |-> "true", result |-> "(1, 2)"],
   [ok |-> "true", code4 |-> <<"9", "9", "9", "9">>, doc_type |-> "memo", schema_version |-> "2"]}

PutArgs ==
  {[code |-> Code7203, title |-> KessanTitle, published_at |-> <<2026, 2, 28, 20>>],
   [code |-> <<>>, title |-> ManualTitle, published_at |-> <<>>],
   [code |-> <<" ", "4", "5", "2", "3", "0">>, title |-> BriefingTitle, published_at |-> <<2026, 2, 10, 3>>]}

StoreUrls == {UrlD, UrlW, <<>>}

\* put(doc_url, code, title, published_at, payload)
ApiPut(doc_url, a, p) ==
  /\ db' = SaveAnalysis(db, doc_url, a.code, a.title, a.published_at, p)
  /\ op' = [kind |-> "put", doc_url |-> doc_url, p |-> p,
            before |-> IF RowsOf(db, doc_url) # {} THEN "row" ELSE "none"]
  /\ UNCHANGED <<pc, last, target, payload, arg, runs, normVars, fetchVars, moreVars>>

\* get(doc_url)
ApiGet(doc_url) ==
  /\ op' = [kind |-> "get", doc_url |-> doc_url, p |-> GetCachedAnalysis(db, doc_url),
            before |-> IF op.kind = "put" /\ op.doc_url = doc_url THEN <<op.p>> ELSE <<>>]
  /\ UNCHANGED <<db, pc, last, target, payload, arg, runs, normVars, fetchVars, moreVars>>

\* ------------------------------------------------------------ schema
\* The table is its column list `cols` (<<>>: no table yet) and its rows `db`,
\* each row a mapping from the columns to values.
OldColumns == <<"doc_url", "code", "title", "published_at", "payload_json", "created_at">>

AddedColumns == <<"model", "tokens", "schema_version", "code4", "published_date_jst", "doc_type">>

AllColumns == OldColumns \o AddedColumns

HasColumn(cs, col) == \E i \in 1..Len(cs) : cs[i] = col

Table(cs, rows) == [cols |-> cs, rows |-> rows]

\* a faulty variant of EnsureColumn: the table is made anew with the column, empty
EnsureColumnRecreate(t, col) ==
  IF HasColumn(t.cols, col) THEN t
  ELSE Table(Append(t.cols, col), {})

\* _ensure_column: ALTER TABLE ADD COLUMN gives NULL to the rows there are
EnsureColumn(t, col) ==
  IF HasColumn(t.cols, col) THEN t
  ELSE Table(Append(t.cols, col), {With(r, col, NULL) : r \in t.rows})

RECURSIVE EnsureColumns(_, _)
EnsureColumns(t, cs) ==
  IF cs = <<>> THEN t ELSE EnsureColumns(EnsureColumn(t, Head(cs)), Tail(cs))

\* init_db on the table t
InitDbTable(t) ==
  LET created == IF t.cols = <<>> THEN Table(OldColumns, {}) ELSE t
  IN EnsureColumns(created, AddedColumns)

\* the column lists of the versions of the schema: no table, the first version,
\* the version with model, tokens and schema_version, the present one
SchemaVersions ==
  {<<>>, OldColumns, OldColumns \o SubSeq(AddedColumns, 1, 3), AllColumns}

\* a row as a version with the columns cs wrote it
RowAt(cs, r) == [c \in {cs[i] : i \in 1..Len(cs)} |-> r[c]]

StoredSamples ==
  {NewRow(UrlD, Code7203, KessanTitle, <<2026, 2, 28, 20>>, OkPayload(UrlD, "r1", "100")),
   NewRow(UrlD, <<>>, ManualTitle, <<>>, [ok |-> "true"]),
   NewRow(UrlW, <<"4", "5", "2", "3">>, BriefingTitle, <<2026, 2, 10, 3>>, OkPayload(UrlW, "r2", "null"))}

\* the sets of rows a table can hold: one row for a doc_url
StoredSets ==
  {rs \in SUBSET StoredSamples : \A a \in rs, b \in rs : a.doc_url = b.doc_url => a = b}

MigIdle == cols = AllColumns

MigInit ==
  /\ cols \in SchemaVersions
  /\ db \in IF cols = <<>> THEN {{}} ELSE {{RowAt(cols, r) : r \in rs} : rs \in StoredSets}

\* init_db(db_path)
InitDb ==
  LET t == InitDbTable(Table(cols, db))
  IN /\ cols' = t.cols
     /\ db' = t.rows
     /\ op' = [kind |-> "init_db", cols |-> cols, rows |-> db]
     /\ UNCHANGED <<pc, last, target, payload, arg, runs, normVars, fetchVars, pdfVars, filtVars, gateVars>>

\* ------------------------------------------------------------ specifications
Init == AppInit /\ NormIdle /\ FetchInit /\ PdfInit /\ FilterInit /\ MigIdle /\ GateIdle

\* two sessions on one store
Next ==
  \/ \E s \in Sessions, it \in ListItemsTwo, show_ai_button \in BOOLEAN, ai_ok \in BOOLEAN,
        clicked \in BOOLEAN, n \in ProbeSizes, max_pdf_bytes \in SizeLimits :
       ListRun(s, it, show_ai_button, ai_ok, clicked, n, max_pdf_bytes)
  \/ \E s \in Sessions, input \in ManualInputsTwo, ai_ok \in BOOLEAN, clicked \in BOOLEAN,
        n \in ProbeSizes, max_pdf_bytes \in SizeLimits :
       ManualRun(s, input, ai_ok, clicked, n, max_pdf_bytes)
  \/ \E s \in Sessions : Analyze(s, {"download"})
  \/ \E s \in Sessions : AnalyzeRaises(s)
  \/ \E s \in Sessions : Save(s)

Spec == Init /\ [][Next]_vars

\* one session
NextOne ==
  \/ \E it \in ListItems, show_ai_button \in BOOLEAN, ai_ok \in BOOLEAN,
        clicked \in BOOLEAN, n \in ProbeSizes, max_pdf_bytes \in SizeLimits :
       ListRun(1, it, show_ai_button, ai_ok, clicked, n, max_pdf_bytes)
  \/ \E input \in ManualInputs, ai_ok \in BOOLEAN, clicked \in BOOLEAN,
        n \in ProbeSizes, max_pdf_bytes \in SizeLimits :
       ManualRun(1, input, ai_ok, clicked, n, max_pdf_bytes)
  \/ Analyze(1, AnalyzeErrors)
  \/ AnalyzeRaises(1)
  \/ Save(1)

SpecOne == Init /\ [][NextOne]_vars

\* one session, the size probe written out
NextGate ==
  \/ \E it \in ListItemsTwo, show_ai_button \in BOOLEAN, ai_ok \in BOOLEAN, clicked \in BOOLEAN,
        probe \in Probes, max_pdf_bytes \in SizeLimits :
       GateListRun(it, show_ai_button, ai_ok, clicked, probe, max_pdf_bytes)
  \/ \E input \in ManualInputsTwo, ai_ok \in BOOLEAN, clicked \in BOOLEAN,
        probe \in Probes, max_pdf_bytes \in SizeLimits :
       GateManualRun(input, ai_ok, clicked, probe, max_pdf_bytes)
  \/ Analyze(1, {"download"})
  \/ AnalyzeRaises(1)
  \/ Save(1)

SpecGate == Init /\ [][NextGate]_vars

\* the store's two calls, in any order
NextStore ==
  \/ \E u \in StoreUrls, a \in PutArgs, p \in PayloadSamples : ApiPut(u, a, p)
  \/ \E u \in StoreUrls : ApiGet(u)

SpecStore == Init /\ [][NextStore]_vars

\* the normalizer on each upstream record
InitNorm == AppInit /\ NormInit /\ FetchInit /\ PdfInit /\ FilterInit /\ MigIdle /\ GateIdle

NextNorm == ExtendText \/ WriteStamp \/ NormalizeStep \/ AppNormalizeStep \/ GateStep

SpecNorm == InitNorm /\ [][NextNorm]_vars

\* calls of fetch_tdnet_items, one after the other
NextFetch ==
  \/ \E code \in FetchCodes : FetchCall(code)
  \/ AttemptFails
  \/ \E body \in Bodies : AttemptSucceeds(body)
  \/ FetchReturn

\* every request ends (timeout=20), so a started call goes on
SpecFetch == Init /\ [][NextFetch]_vars /\ WF_vars(FetchStep)

\* calls of summarize_kessan_pdf_to_json, one after the other
NextPdf ==
  \/ \E pdf_url \in PdfUrls, max_pdf_bytes \in ByteBudgets : SummarizeCall(pdf_url, max_pdf_bytes)
  \/ \E n \in ChunkSizes : ReadChunk(n)
  \/ \E doc \in Docs : StreamEnds(doc)
  \/ DownloadRaises
  \/ \E installed \in BOOLEAN : ExtractStep(installed)
  \/ \E api_key \in {<<>>, <<" ">>, <<"k">>}, sdk \in BOOLEAN : GenStart(api_key, sdk)
  \/ GenRaises
  \/ \E resp \in Responses, tokens \in TokenCounts : GenResponds(resp, tokens)

SpecPdf == Init /\ [][NextPdf]_vars

\* the list page, run after run
NextFilter ==
  \/ \E raw \in FilterRaws : NormalizeLoop(raw)
  \/ \E only_kessan \in BOOLEAN, only_has_doc_url \in BOOLEAN, cutoff_utc \in Cutoffs :
       FilterRun(only_kessan, only_has_doc_url, cutoff_utc)
  \/ FilterRerun

SpecFilter == Init /\ [][NextFilter]_vars

\* the store opened on a table of any version: init_db first, as the page script
\* does, then puts and gets
AppInitNoDb ==
  /\ pc = [s \in Sessions |-> "idle"]
  /\ last = [s \in Sessions |-> "none"]
  /\ target = [s \in Sessions |-> <<>>]
  /\ payload = [s \in Sessions |-> <<>>]
  /\ arg = [s \in Sessions |-> NoArg]
  /\ runs = [u \in AppUrls |-> 0]
  /\ op = [kind |-> "none"]

InitMig == AppInitNoDb /\ MigInit /\ NormIdle /\ FetchInit /\ PdfInit /\ FilterInit /\ GateIdle

MigPut(doc_url, a, p) == cols = AllColumns /\ ApiPut(doc_url, a, p)

MigGet(doc_url) == cols = AllColumns /\ ApiGet(doc_url)

NextMig ==
  \/ InitDb
  \/ \E u \in StoreUrls, a \in PutArgs, p \in PayloadSamples : MigPut(u, a, p)
  \/ \E u \in StoreUrls : MigGet(u)

SpecMig == InitMig /\ [][NextMig]_vars

\* ------------------------------------------------------------ properties
MetaKeys == {"model", "tokens", "schema_version", "code4", "published_date_jst", "doc_type"}

HasRow(u) == RowsOf(db, u) # {}

\* the session's last attempt is over and it failed
FailedAttempt(s) ==
  /\ pc[s] = "idle"
  /\ \/ last[s] = "error"
     \/ last[s] = "saved" /\ payload[s]["ok"] = "false"

\* C1: after an analysis attempt for a URL failed, the store holds no record for
\* that URL (one session).
C1_FailedAttemptNotStored == \A s \in Sessions : FailedAttempt(s) => ~HasRow(target[s])

\* C2: within one session, once the store holds a record for a URL, no step changes
\* that record or runs the pipeline for that URL, and what a later request for the
\* URL shows is the stored record.
C2_StoredRecordIsServed ==
  [][\A u \in AppUrls : HasRow(u) =>
       /\ RowsOf(db', u) = RowsOf(db, u)
       /\ runs'[u] = runs[u]
       /\ \A s \in Sessions : (target'[s] = u /\ <<pc[s], last[s], payload[s], target[s]>> # <<pc'[s], last'[s], payload'[s], target'[s]>>) =>
            /\ pc'[s] = "idle"
            /\ last'[s] \in {"cache", "none", "blocked"}
            /\ last'[s] = "cache" => payload'[s] = GetCachedAnalysis(db, u).p]_vars

C2_Witness ==
  /\ last[1] = "cache"
  /\ target[1] = UrlD
  /\ runs[UrlD] = 1
  /\ payload[1] = GetCachedAnalysis(db, UrlD).p

\* C3 as stated: the pipeline runs at most once for each URL.
C3_AtMostOncePerUrl == \A u \in AppUrls : runs[u] <= 1

\* C3, amended: a session starts the pipeline for a URL only in a script run whose
\* own lookup found no record of that URL, and each start leads to one execution.
C3_RunOnlyAfterOwnMiss ==
  [][/\ \A s \in Sessions : (pc[s] = "idle" /\ pc'[s] = "analyze") => ~HasRow(target'[s])
     /\ \A u \in AppUrls : runs'[u] # runs[u] =>
          /\ runs'[u] = runs[u] + 1
          /\ \E s \in Sessions : pc[s] = "analyze" /\ target[s] = u /\ pc'[s] # "analyze"]_vars

C3_Witness ==
  /\ last[1] = "saved"
  /\ last[2] = "saved"
  /\ target[1] = UrlD
  /\ target[2] = UrlD
  /\ runs[UrlD] = 2

\* C4: every put completes and leaves exactly one record for its URL, holding the
\* payload of that put; no other step writes the store, so after two sessions'
\* puts for one URL the record is the one of the put that ran last.
C4_LastWriterWins ==
  [][/\ \A s \in Sessions : (pc[s] = "save" /\ pc'[s] = "idle") =>
          /\ Cardinality(RowsOf(db', target[s])) = 1
          /\ \A r \in RowsOf(db', target[s]) : JsonLoads(r.payload_json) = payload[s]
     /\ db' # db => \E s \in Sessions : pc[s] = "save" /\ pc'[s] = "idle"
     /\ \A u \in AppUrls : Cardinality(RowsOf(db', u)) <= 1]_vars

C4_Witness ==
  /\ last[1] = "saved"
  /\ last[2] = "saved"
  /\ target[1] = UrlD
  /\ target[2] = UrlD
  /\ payload[1] # payload[2]
  /\ Cardinality(RowsOf(db, UrlD)) = 1
  /\ \E r \in RowsOf(db, UrlD) : JsonLoads(r.payload_json) = payload[2]

\* C5: analyze_pdf_to_json is never called with a URL the allow-list check rejects,
\* in the list flow and in the manual flow, whatever the settings.
C5_OnlyAllowedUrlsAnalyzed ==
  /\ \A s \in Sessions : pc[s] \in {"analyze", "save"} => IsAllowedPdfUrl(target[s])
  /\ \A u \in AppUrls : runs[u] > 0 => IsAllowedPdfUrl(u)

C5_Witness ==
  /\ pc[1] = "idle"
  /\ target[1] = UrlN
  /\ runs[UrlN] = 0
  /\ runs[UrlW] > 0
  /\ runs[UrlD] > 0

\* (a) of the allow-list: the filing host, and the URL ends in .pdf
FilingHostPdf(u) == u # <<>> /\ u[1] = HRel /\ EndsWithPdf(Lower(u))

\* (b) of the allow-list: the wrapper host and rd.php?, the target being as in (a)
WrappedFilingHostPdf(u) ==
  Len(u) >= 3 /\ u[1] = HYano /\ u[2] = PRd /\ FilingHostPdf(SubSeq(u, 3, Len(u)))

\* C6: the allow-list check accepts a URL only if its host is the filing host and
\* it ends in .pdf, or its host is the wrapper host and its target is such a URL.
C6_AllowListByHost ==
  (npc = "gate" /\ gate) => (FilingHostPdf(rec.doc_url) \/ WrappedFilingHostPdf(rec.doc_url))

\* the last two calls were put(url, ..., p) and get(url), url not empty
PutThenGet == op.kind = "get" /\ op.before # <<>> /\ op.doc_url # <<>>

\* C7 as stated: get after put returns exactly the payload that was put.
C7_RoundTripExact == PutThenGet => (op.p.found /\ op.p.p = op.before[1])

JsonNative(p) == \A k \in DOMAIN p : k \in {"code4", "published_date_jst", "pdf_url"} \/ p[k] # "(1, 2)"

\* C7, amended: get after put returns every key of the payload that was put with
\* its value (the payload being a mapping of JSON values), and adds no key but the
\* metadata keys that the payload lacks.
C7_RoundTripKeepsPayload ==
  PutThenGet =>
    LET p == op.before[1]
        g == op.p
    IN /\ g.found
       /\ DOMAIN p \subseteq DOMAIN g.p
       /\ JsonNative(p) => \A k \in DOMAIN p : g.p[k] = p[k]
       /\ (DOMAIN g.p) \ (DOMAIN p) \subseteq MetaKeys

C7_Witness ==
  /\ PutThenGet
  /\ op.before[1] = OkPayload(UrlD, "r1", "100")
  /\ "code4" \in DOMAIN op.p.p

\* the URL the upstream record carries
RawUrl == LET td == PickTdnetDict(RawRecord) IN Or2(td.document_url, Or2(td.documentUrl, Or2(td.doc_url, td.url)))

\* host/rd.php?<target>
IsWrapped(u) == Len(u) >= 3 /\ u[1] = HYano /\ u[2] = PRd

WrappedTarget(u) == SubSeq(u, 3, Len(u))

EmptyOrFourDigits(c) == c = <<>> \/ (Len(c) = 4 /\ IsDigit(c))

\* C9: the code4 of tdnet's item and the code of the page script's row are empty
\* or exactly four digits.
C9_CodeEmptyOrFourDigits ==
  /\ npc \in {"item", "rec", "gate"} => EmptyOrFourDigits(item.code4)
  /\ npc \in {"rec", "gate"} => EmptyOrFourDigits(rec.code)

FetchSafe ==
  /\ Len(flog) <= 3
  /\ \A k \in 1..Len(flog) : flog[k] = "ok" => k = Len(flog)
  /\ Len(sleeps) = IF fpc \in {"got", "done"} THEN Len(flog) - 1 ELSE Len(flog)
  /\ \A k \in 1..Len(sleeps) : sleeps[k] = 8 * k /\ flog[k] = "fail"
  /\ (fpc = "done" /\ flog[Len(flog)] = "fail") => (Len(flog) = 3 /\ fout = <<>>)

\* C10: a call makes at most 3 attempts, none after a success, waits 0.8 s * k after
\* failed attempt k when another attempt follows, and ends; after 3 failures it
\* returns the empty sequence.
C10_BoundedRetry == []FetchSafe /\ ((fpc = "try") ~> (fpc = "done"))

C10_Witness == fpc = "done" /\ flog = <<"fail", "fail", "fail">> /\ sleeps = <<8, 16>> /\ fout = <<>>

GenerationErrors == {"empty_response", "parse", "call"}

\* C11: every summarization failure (the call raises, the response is empty, the
\* JSON does not parse after the fence is removed) is surfaced only after
\* MaxRetries calls, and one analysis never makes more than MaxRetries calls.
C11_EveryFailureRetried ==
  /\ gcalls <= MaxRetries
  /\ (ppc = "done" /\ pres.error \in GenerationErrors) => gcalls = MaxRetries

\* C12: in download_pdf the buffered chunks never exceed max_bytes; the first chunk
\* that takes the received size over max_bytes ends the download with the size
\* error and no data, and no further chunk is read; a body of exactly max_bytes
\* is returned whole.
C12_DownloadWithinBudget ==
  /\ [](SumSeq(chunks) <= pmax)
  /\ [](ptotal > pmax => ppc = "done" /\ perr = "size" /\ pbytes = <<>>)
  /\ [](ppc = "extract" /\ ptotal = pmax => pbytes = <<pmax>>)
  /\ [][ppc = "download" /\ ptotal' > pmax => chunks' = chunks /\ ppc' = "done"]_vars
  /\ [][perr = "size" /\ perr' = "size" => preads' = preads]_vars

C12_Witness == perr = "size" /\ chunks = <<2>> /\ pmax = 2 /\ ptotal = 3 /\ preads = 3

\* C13: once download_pdf and extract_text_from_pdf_bytes have returned, exactly
\* one of the text and the error is not empty.
C13_ExactlyOneOfTextAndError ==
  ppc \in {"generate", "call", "done"} => ((ptext # <<>>) # (perr # ""))

C13_Witness == ppc = "done" /\ perr = "empty_text" /\ pbytes = <<2>> /\ ptext = <<>>

\* the row is in the list
InList(row, list) == \E j \in 1..Len(list) : list[j] = row

\* C14: a row whose timestamp is absent is kept by apply_filters whenever the
\* title filter in force and the document-URL filter keep it, whatever the cutoff.
C14_AbsentTimestampKept ==
  qpc = "shown" =>
    \A i \in 1..Len(normalized) :
      (normalized[i].published_at = <<>>
         /\ PassesOtherFilters(normalized[i], fset.use_kessan, fset.only_has_doc_url))
        => InList(normalized[i], filtered)

C14_Witness ==
  /\ qpc = "shown"
  /\ Len(normalized) = 2
  /\ Len(filtered) = 1
  /\ fset.cutoff_utc = <<2026, 3, 1, 0>>
  /\ normalized[1].published_at # <<>>
  /\ normalized[2].raw.published_at = Garbage
  /\ normalized[2].published_at = <<>>
  /\ filtered[1] = normalized[2]

\* C15: a timestamp YYYY-MM-DD HH:MM:SS without a zone is normalized to the UTC
\* time nine hours before it, by _normalize_item and by the page script.
C15_NaiveMinusNineHours ==
  (npc \in {"item", "rec", "gate"} /\ stamp # <<>> /\ stamp[1] = "space" /\ ValidDate(stamp)) =>
    /\ item.published_at = MinusHours(WallTime(stamp), 9)
    /\ npc \in {"rec", "gate"} => rec.published_at = MinusHours(WallTime(stamp), 9)

\* C16: a record without a code field whose company code is five digits ending
\* in 0 gets the first four digits as its security code.
C16_TrailingZeroStripped ==
  LET td == PickTdnetDict(RawRecord)
      cc == Strip(Or2(td.company_code, td.CompanyCode))
  IN (npc \in {"item", "rec", "gate"} /\ td.code = <<>> /\ td.Code = <<>>
        /\ Len(cc) = 5 /\ IsDigit(cc) /\ cc[5] = "0") =>
       /\ item.code4 = SubSeq(cc, 1, 4)
       /\ npc \in {"rec", "gate"} => rec.code = SubSeq(cc, 1, 4)

\* C17: fetch_tdnet_items returns the empty list, and returns, when the response
\* body is no mapping or holds no list under "items".
C17_OtherShapesGiveEmpty ==
  (fpc = "done" /\ fbody # <<>> /\ (~fbody[1].isdict \/ ~fbody[1].islist)) => fout = <<>>

C17_Witness ==
  /\ fpc = "done"
  /\ flog = <<"fail", "ok">>
  /\ fbody = <<Body(TRUE, FALSE, <<>>)>>
  /\ fout = <<>>

\* the row n is the row r with NULL in the columns r did not have
ExtendsWithNull(n, r) ==
  /\ DOMAIN n = {AllColumns[i] : i \in 1..Len(AllColumns)}
  /\ \A c \in DOMAIN r : n[c] = r[c]
  /\ \A c \in DOMAIN n \ DOMAIN r : n[c] = NULL

\* C18: init_db on a table of an earlier version leaves the table with every
\* column, the old columns first, each old row once with its old values and NULL
\* in the added columns; a second init_db changes nothing.
C18_MigrationKeepsRows ==
  /\ [](op.kind = "init_db" =>
          /\ cols = AllColumns
          /\ Cardinality(db) = Cardinality(op.rows)
          /\ \A r \in op.rows : \E n \in db : ExtendsWithNull(n, r))
  /\ [][op.kind = "init_db" /\ op'.kind = "init_db" => db' = db /\ cols' = cols]_vars

C18_Witness ==
  /\ op.kind = "init_db"
  /\ op.cols = OldColumns
  /\ Cardinality(op.rows) = 2
  /\ cols = AllColumns
  /\ \E n \in db : n.doc_url = UrlD /\ n.title = KessanTitle /\ n.code4 = NULL

\* the document URLs the store holds
StoredUrls(table) == {r.doc_url : r \in table}

\* C19: no put and no get removes a document URL from the store, and the store
\* never holds two rows for one document URL.
C19_KeysOnlyGrow ==
  /\ [](\A a \in db, b \in db : a.doc_url = b.doc_url => a = b)
  /\ [][StoredUrls(db) \subseteq StoredUrls(db')]_vars

C19_Witness ==
  /\ op.kind = "put"
  /\ op.before = "row"
  /\ op.doc_url = UrlD
  /\ StoredUrls(db) = {UrlD, UrlW}
  /\ Cardinality(db) = 2

\* C20: a put whose doc_url is empty leaves the store as it was.
C20_EmptyUrlPutIsNoOp ==
  [][op'.kind = "put" /\ op'.doc_url = <<>> => db' = db]_vars

C20_Witness ==
  /\ op.kind = "put"
  /\ op.doc_url = <<>>
  /\ op.p = OkPayload(UrlD, "r1", "100")
  /\ StoredUrls(db) = {UrlD}

\* C21: a get with an empty doc_url, or with a doc_url the store holds no row of,
\* answers absent, and no get changes the store.
C21_AbsentGetIsQuiet ==
  [][op'.kind = "get" =>
       /\ db' = db
       /\ (op'.doc_url = <<>> \/ RowsOf(db, op'.doc_url) = {}) => op'.p = NotFound]_vars

C21_Witness ==
  /\ op.kind = "get"
  /\ op.doc_url = UrlW
  /\ op.p = NotFound
  /\ StoredUrls(db) = {UrlD}

\* the mapping the normalizers read the fields of
PickedRaw == PickTdnetDict(RawRecord)

\* C22: on every upstream mapping the two normalizers run through without
\* raising; a field the mapping does not carry under any of its keys comes out
\* empty, and a timestamp that is missing or is no date comes out absent.
C22_NormalizeIsTotal ==
  /\ npc # "raised"
  /\ npc \in {"item", "rec", "gate"} =>
       /\ (PickedRaw.title = <<>> /\ PickedRaw.Title = <<>>) => item.title = <<>>
       /\ (\A k \in {"company_code", "CompanyCode", "code", "Code"} : PickedRaw[k] = <<>>)
            => item.company_code = <<>> /\ item.code4 = <<>>
       /\ (\A k \in {"document_url", "documentUrl", "doc_url", "url"} : PickedRaw[k] = <<>>)
            => item.doc_url = <<>>
       /\ (stamp = <<>> \/ ~ValidDate(stamp)) => item.published_at = <<>>
  /\ npc \in {"rec", "gate"} =>
       /\ (PickedRaw.title = <<>> /\ PickedRaw.Title = <<>>) => rec.title = <<>>
       /\ (\A k \in {"company_code", "CompanyCode", "code", "Code"} : PickedRaw[k] = <<>>)
            => rec.code = <<>> /\ rec.code_raw = <<>>
       /\ (\A k \in {"document_url", "documentUrl", "doc_url", "url"} : PickedRaw[k] = <<>>)
            => rec.doc_url = <<>>
       /\ (stamp = <<>> \/ ~ValidDate(stamp)) => rec.published_at = <<>>

\* a mapping without any field, and a mapping whose title, code and URL are numbers
C22_Witness ==
  /\ npc = "rec"
  /\ \/ /\ PickedRaw = NoFields
        /\ rec = NoRec
     \/ /\ ~IsStr(PickedRaw.Title)
        /\ stamp = Garbage
        /\ rec.title = <<"2", "0", "2", "5">>
        /\ rec.code = Code7203
        /\ rec.published_at = <<>>

\* C23: every stored payload carries ok as a boolean; with ok false it carries an
\* error that is not the empty string, with ok true it carries the result.
C23_StoredPayloadShape ==
  \A r \in db :
    LET p == JsonLoads(r.payload_json)
    IN /\ "ok" \in DOMAIN p
       /\ p["ok"] \in {"true", "false"}
       /\ p["ok"] = "false" => "error" \in DOMAIN p /\ p["error"] # ""
       /\ p["ok"] = "true" => "result" \in DOMAIN p

\* the probe could not tell the size
SizeUnknown(p) == p.raises \/ p.status >= 400 \/ p.header # "num" \/ p.n <= 0

\* C24: a size check whose probe could not tell the size does not block and the
\* run goes on to the lookup or the analysis; a run is blocked exactly when the
\* check was made under a limit above 0 and the probe told a size above the
\* limit; a blocked run starts no analysis and writes nothing to the store.
C24_SizeCheckBlocksOnlyKnownOversize ==
  /\ [](sized.called /\ SizeUnknown(sized.probe) =>
          /\ last[1] # "blocked"
          /\ pc[1] \in {"analyze", "save"} \/ last[1] \in {"cache", "saved", "error"})
  /\ [](last[1] = "blocked" <=>
          (sized.called /\ sized.max_bytes > 0 /\ ~SizeUnknown(sized.probe)
             /\ sized.probe.n > sized.max_bytes))
  /\ [][last'[1] = "blocked" => db' = db /\ runs' = runs /\ pc'[1] = "idle"]_vars

C24_Witness ==
  /\ sized.called
  /\ sized.probe = Probe(FALSE, 404, "num", 20)
  /\ sized.max_bytes = 10
  /\ pc[1] = "analyze"
  /\ target[1] = UrlD

\* p spells a beginning of t
RECURSIVE IsPrefixText(_, _)
IsPrefixText(p, t) ==
  IF p = <<>> THEN TRUE
  ELSE IF t = <<>> THEN FALSE
  ELSE IF Head(p).c # Head(t).c THEN FALSE
  ELSE IF Head(p).n = Head(t).n THEN IsPrefixText(Tail(p), Tail(t))
  ELSE IF Head(p).n < Head(t).n
       THEN IsPrefixText(Tail(p), <<Run(Head(t).c, Head(t).n - Head(p).n)>> \o Tail(t))
  ELSE IsPrefixText(<<Run(Head(p).c, Head(p).n - Head(t).n)>> \o Tail(p), Tail(t))

\* C25: an extracted text longer than TextBudget is handed to the summarization
\* as its first TextBudget characters; a text not longer is handed on as it is.
C25_TextCutAtBudget ==
  (ppc \in {"generate", "call", "done"} /\ perr = "") =>
     IF TextLen(ptext) > TextBudget
     THEN TextLen(pprompt) = TextBudget /\ IsPrefixText(pprompt, ptext)
     ELSE pprompt = ptext

\* a text two characters over the budget, cut inside its last run
C25_Witness ==
  /\ ppc = "generate"
  /\ TextLen(ptext) = TextBudget + 2
  /\ TextLen(pprompt) = TextBudget
  /\ pprompt[Len(pprompt)] = Run("a", 79997)

IsDictElem(e) == e.isdict

\* C26: of an items list, fetch_tdnet_items returns the normalized record of each
\* element that is a mapping, in the order of the list, and nothing for the others.
C26_OnePerMappingInOrder ==
  (fpc = "done" /\ fbody # <<>> /\ fbody[1].isdict /\ fbody[1].islist) =>
     LET dicts == SelectSeq(fbody[1].items, IsDictElem)
     IN /\ Len(fout) = Len(dicts)
        /\ \A i \in 1..Len(dicts) : fout[i] = NormalizeItem(dicts[i].r)

C26_Witness ==
  /\ fpc = "done"
  /\ fbody # <<>>
  /\ Len(fbody[1].items) = 2
  /\ ~fbody[1].items[1].isdict
  /\ fbody[1].items[2].isdict
  /\ Len(fout) = 1
  /\ fout[1].code4 = Code7203

\* C27: one analysis goes download, extract, summarize in that order; the
\* extraction starts only on downloaded bytes, the summarization only on an
\* extracted text, and the service is never called after a download that failed
\* or went over the budget or after an extraction that gave an error or no text.
C27_StagesInOrder ==
  /\ [](perr # "" => gcalls = 0)
  /\ [](ptotal > pmax => gcalls = 0)
  /\ [](ppc = "extract" => pbytes # <<>> /\ perr = "")
  /\ [](ppc \in {"generate", "call"} => pbytes # <<>> /\ ptext # <<>> /\ perr = "")
  /\ [][/\ ppc' = "extract" => ppc \in {"download", "extract"}
        /\ ppc' = "generate" => ppc \in {"extract", "generate"}
        /\ ppc' = "call" => ppc \in {"generate", "call"}
        /\ gcalls' > gcalls => ppc = "call"]_vars

C27_Witness ==
  /\ ppc = "done"
  /\ perr = "unreadable"
  /\ pbytes = <<3>>
  /\ pres = ErrorResult("unreadable")
  /\ gcalls = 0

\* C28: what get answers holds every key of the stored payload with the stored
\* value; a key it adds is one of the metadata keys, taken from a column of the
\* row that is not NULL.
C28_PayloadKeysWin ==
  (op.kind = "get" /\ op.p.found) =>
     \A r \in RowsOf(db, op.doc_url) :
       LET stored == JsonLoads(r.payload_json)
           got == op.p.p
       IN /\ \A k \in DOMAIN stored : got[k] = stored[k]
          /\ \A k \in DOMAIN got \ DOMAIN stored : k \in MetaKeys /\ r[k] # NULL /\ got[k] = r[k]

\* the payload's own code4 and doc_type stand against other values in the columns
C28_Witness ==
  /\ op.kind = "get"
  /\ op.p.found
  /\ {"code4", "doc_type"} \subseteq DOMAIN op.p.p
  /\ op.p.p["code4"] = <<"9", "9", "9", "9">>
  /\ op.p.p["doc_type"] = "memo"
  /\ \E r \in RowsOf(db, op.doc_url) : r.code4 = Code7203 /\ r.doc_type = "kessan"

\* C29: every row the page script has written has a code4 column that is empty or
\* four digits.
C29_StoredCode4EmptyOrFourDigits == \A r \in db : EmptyOrFourDigits(r.code4)

\* C30: on every code string tdnet._code4_from_company_code and app._code4 give
\* the same result, and so the item's code4 and the row's code agree on a record
\* that carries its code under company_code only.
C30_Code4FunctionsAgree ==
  /\ shape.key \in CodeKeys => Code4FromCompanyCode(text) = Code4(text)
  /\ (npc \in {"rec", "gate"} /\ shape.key = "company_code") => rec.code = item.code4

====
